---------------------------- MODULE Spec2Model ----------------------------
(***************************************************************************)
(* VLAN HAL (vlan_hal.h): VLAN groups are Linux bridges, their members are *)
(* VLAN sub-interfaces "ifName.vlanID", and a linked list of               *)
(* vlan_vlanidconfiguration_t entries records the VLAN ID of each group.   *)
(*                                                                         *)
(* The header declares the operations and documents their contract; the    *)
(* bodies (the order of the bridge/VLAN commands, the list handling) are   *)
(* modelled after the design document where the header is silent.          *)
(*                                                                         *)
(* A VLAN ID text is modelled by the number it spells (canonical decimal). *)
(***************************************************************************)
EXTENDS Integers, Sequences, FiniteSets, TLC

RETURN_OK == 0

RETURN_ERR == -1

MinVlanId == 1

MaxVlanId == 4094

\* Bound of the model: at most MaxSubIfs VLAN sub-interfaces exist at a time.
MaxSubIfs == 2

\* Group (bridge) names, interface names and VLAN ID arguments of the calls.
Groups == {"brlan0", "brlan1"}

Ifs == {"l2sd0", "gretap0"}

VlanArgs == {MinVlanId - 1, MinVlanId, MaxVlanId, MaxVlanId + 1}

\* The VLAN ID arguments inside the valid range.
ValidVlanArgs == {MinVlanId, MaxVlanId}

\* Names handed to the Config Store utilities: the group names and the empty text.
StoreNames == Groups \cup {""}

\* Bound of the model: the number of callers that may be inside the HAL at a time.
MaxCallers == 2

Callers == 1..MaxCallers

\* calls and lock are the state of concurrent callers: the call each caller is
\* in, and the host's mutual-exclusion lock (owner 0: free).
VARIABLES bridges, subifs, members, store, last, allOk, calls, lock

vars == <<bridges, subifs, members, store, last, allOk, calls, lock>>

-----------------------------------------------------------------------------
(* VLAN Config Store: the linked list of (groupName, vlanID) entries.      *)

vlan_vlanidconfiguration_t(g, v) == [groupName |-> g, vlanID |-> v]

\* Positions of the entries of group g, in list order.
EntryIdx(s, g) == {k \in 1..Len(s) : s[k].groupName = g}

FirstIdx(s, g) == CHOOSE k \in EntryIdx(s, g) : \A j \in EntryIdx(s, g) : k <= j

\* Lookup that hands out the lowest VLAN ID when g has no entry.
get_vlanId_for_GroupName_Default(s, g) ==
    IF EntryIdx(s, g) = {}
    THEN [ret |-> RETURN_OK, out |-> <<MinVlanId>>]
    ELSE [ret |-> RETURN_OK, out |-> <<s[FirstIdx(s, g)].vlanID>>]

\* Lookup: the first entry of g; out is <<vlanID>> when found, <<>> otherwise.
get_vlanId_for_GroupName(s, g) ==
    IF EntryIdx(s, g) = {}
    THEN [ret |-> RETURN_ERR, out |-> <<>>]
    ELSE [ret |-> RETURN_OK, out |-> <<s[FirstIdx(s, g)].vlanID>>]

\* Insert that always links a new entry, whether or not g has one.
insert_VLAN_ConfigEntry_Append(s, g, v) ==
    IF g = ""
    THEN [ret |-> RETURN_ERR, store |-> s]
    ELSE [ret |-> RETURN_OK, store |-> Append(s, vlan_vlanidconfiguration_t(g, v))]

\* Insert that leaves the entry of a bound group as it is.
insert_VLAN_ConfigEntry_NoUpdate(s, g, v) ==
    IF g = ""
    THEN [ret |-> RETURN_ERR, store |-> s]
    ELSE IF EntryIdx(s, g) = {}
    THEN [ret |-> RETURN_OK, store |-> Append(s, vlan_vlanidconfiguration_t(g, v))]
    ELSE [ret |-> RETURN_OK, store |-> s]

\* Insert: rejects the empty name; updates the entry of g when there is one,
\* appends a new entry otherwise.
insert_VLAN_ConfigEntry(s, g, v) ==
    IF g = ""
    THEN [ret |-> RETURN_ERR, store |-> s]
    ELSE IF EntryIdx(s, g) = {}
    THEN [ret |-> RETURN_OK, store |-> Append(s, vlan_vlanidconfiguration_t(g, v))]
    ELSE [ret |-> RETURN_OK,
          store |-> [s EXCEPT ![FirstIdx(s, g)] = vlan_vlanidconfiguration_t(g, v)]]

\* Delete that never unlinks the head of the list.
delete_VLAN_ConfigEntry_KeepHead(s, g) ==
    IF EntryIdx(s, g) = {}
    THEN [ret |-> RETURN_ERR, store |-> s]
    ELSE IF FirstIdx(s, g) = 1
    THEN [ret |-> RETURN_OK, store |-> s]
    ELSE [ret |-> RETURN_OK,
          store |-> SubSeq(s, 1, FirstIdx(s, g) - 1)
                        \o SubSeq(s, FirstIdx(s, g) + 1, Len(s))]

\* Delete that unlinks the entry of g without relinking the entries after it.
delete_VLAN_ConfigEntry_DropTail(s, g) ==
    IF EntryIdx(s, g) = {}
    THEN [ret |-> RETURN_ERR, store |-> s]
    ELSE [ret |-> RETURN_OK, store |-> SubSeq(s, 1, FirstIdx(s, g) - 1)]

\* Delete: unlinks the entry of g; "entry not found" is reported as an error.
delete_VLAN_ConfigEntry(s, g) ==
    IF EntryIdx(s, g) = {}
    THEN [ret |-> RETURN_ERR, store |-> s]
    ELSE [ret |-> RETURN_OK,
          store |-> SubSeq(s, 1, FirstIdx(s, g) - 1)
                        \o SubSeq(s, FirstIdx(s, g) + 1, Len(s))]

-----------------------------------------------------------------------------
(* The system a call works on: live bridge state and the Config Store.     *)

Sys == [bridges |-> bridges, subifs |-> subifs, members |-> members, store |-> store]

Res(sys, ret, fail) == [sys |-> sys, ret |-> ret, fail |-> fail]

(* Bridge/VLAN State Prober.                                               *)

is_this_group_available_in_linux_bridge(sys, br_name) ==
    IF br_name \in sys.bridges THEN RETURN_OK ELSE RETURN_ERR

is_this_interface_available_in_given_linux_bridge(sys, if_name, br_name, vlanID) ==
    IF br_name \in sys.bridges /\ <<if_name, vlanID>> \in sys.members[br_name]
    THEN RETURN_OK ELSE RETURN_ERR

is_this_interface_available_in_linux_bridge(sys, if_name, vlanID) ==
    IF \E b \in sys.bridges : <<if_name, vlanID>> \in sys.members[b]
    THEN RETURN_OK ELSE RETURN_ERR

(* Topology Mutator: the effect of each bridge/VLAN command that succeeds. *)

createBridge(sys, g) == [sys EXCEPT !.bridges = @ \cup {g}]

destroyBridge(sys, g) ==
    [sys EXCEPT !.bridges = @ \ {g}, !.members[g] = {}]

tagInterface(sys, i, v) == [sys EXCEPT !.subifs = @ \cup {<<i, v>>}]

untagInterface(sys, i, v) == [sys EXCEPT !.subifs = @ \ {<<i, v>>}]

attach(sys, g, sub) == [sys EXCEPT !.members[g] = @ \cup {sub}]

detach(sys, g, sub) == [sys EXCEPT !.members[g] = @ \ {sub}]


-----------------------------------------------------------------------------
(* Group/Interface Orchestrator.  Each operator is a whole call: sys is    *)
(* the system it starts in, f the bridge/VLAN command that fails during    *)
(* the call ("none": every command succeeds).  The result is the system it *)
(* leaves, the status it returns and the command that did fail.            *)

\* The range test with its upper end one too far.
ValidVlanId_OffByOne(v) == v >= MinVlanId /\ v <= MaxVlanId + 1

ValidVlanId(v) == v >= MinVlanId /\ v <= MaxVlanId

\* addGroup that takes an existing bridge for an error whatever its VLAN ID.
AddGroupExisting_Err(sys, g, v) == Res(sys, RETURN_ERR, "none")

\* addGroup that rebinds an existing group to the requested VLAN ID.
AddGroupExisting_Overwrite(sys, g, v) ==
    LET ins == insert_VLAN_ConfigEntry(sys.store, g, v)
    IN  Res([sys EXCEPT !.store = ins.store], ins.ret, "none")

\* addGroup on a bridge that exists: success when the recorded VLAN ID is the
\* requested one, an error when it is another one; with no record at all the
\* requested VLAN ID is recorded.
AddGroupExisting(sys, g, v) ==
    LET cur == get_vlanId_for_GroupName(sys.store, g)
        ins == insert_VLAN_ConfigEntry(sys.store, g, v)
    IN  IF cur.ret = RETURN_OK
        THEN IF cur.out = <<v>>
             THEN Res(sys, RETURN_OK, "none")
             ELSE Res(sys, RETURN_ERR, "none")
        ELSE Res([sys EXCEPT !.store = ins.store], ins.ret, "none")

\* addGroup on a bridge that does not exist: createBridge, then insert.
AddGroupNew(sys, g, v, f) ==
    IF f = "createBridge"
    THEN Res(sys, RETURN_ERR, f)
    ELSE LET s1  == createBridge(sys, g)
             ins == insert_VLAN_ConfigEntry(s1.store, g, v)
         IN  Res([s1 EXCEPT !.store = ins.store], ins.ret, "none")

vlan_hal_addGroup(sys, g, v, f) ==
    IF ~ValidVlanId(v)
    THEN Res(sys, RETURN_ERR, "none")
    ELSE IF is_this_group_available_in_linux_bridge(sys, g) = RETURN_OK
    THEN AddGroupExisting(sys, g, v)
    ELSE AddGroupNew(sys, g, v, f)

\* The test for a conflicting membership left out.
InGroupWithOtherVlan_Never(sys, g, i, v) == FALSE

\* The interface is in the group under another VLAN ID.
InGroupWithOtherVlan(sys, g, i, v) ==
    \E m \in sys.members[g] : m[1] = i /\ m[2] # v

\* addInterface steps that remove the sub-interface again when attach fails.
AddInterfaceSteps_Rollback(sys, g, i, v, f) ==
    IF f = "tag"
    THEN Res(sys, RETURN_ERR, f)
    ELSE LET s1 == tagInterface(sys, i, v)
         IN  IF f = "attach"
             THEN Res(untagInterface(s1, i, v), RETURN_ERR, f)
             ELSE Res(attach(s1, g, <<i, v>>), RETURN_OK, "none")

\* tagInterface, then attach.
AddInterfaceSteps(sys, g, i, v, f) ==
    IF f = "tag"
    THEN Res(sys, RETURN_ERR, f)
    ELSE LET s1 == tagInterface(sys, i, v)
         IN  IF f = "attach"
             THEN Res(s1, RETURN_ERR, f)
             ELSE Res(attach(s1, g, <<i, v>>), RETURN_OK, "none")

\* addInterface that creates the bridge when the group does not exist.
vlan_hal_addInterface_AutoCreate(sys, g, i, v, f) ==
    IF ~(v >= MinVlanId /\ v <= MaxVlanId)
    THEN Res(sys, RETURN_ERR, "none")
    ELSE IF is_this_interface_available_in_given_linux_bridge(sys, i, g, v) = RETURN_OK
    THEN Res(sys, RETURN_OK, "none")
    ELSE IF InGroupWithOtherVlan(sys, g, i, v)
    THEN Res(sys, RETURN_ERR, "none")
    ELSE IF is_this_interface_available_in_linux_bridge(sys, i, v) = RETURN_OK
    THEN Res(sys, RETURN_ERR, "none")
    ELSE AddInterfaceSteps(createBridge(sys, g), g, i, v, f)

\* addInterface that hands any VLAN ID to the bridge/VLAN commands.
vlan_hal_addInterface_NoRangeCheck(sys, g, i, v, f) ==
    IF is_this_group_available_in_linux_bridge(sys, g) # RETURN_OK
    THEN Res(sys, RETURN_ERR, "none")
    ELSE IF is_this_interface_available_in_given_linux_bridge(sys, i, g, v) = RETURN_OK
    THEN Res(sys, RETURN_OK, "none")
    ELSE IF InGroupWithOtherVlan(sys, g, i, v)
    THEN Res(sys, RETURN_ERR, "none")
    ELSE IF is_this_interface_available_in_linux_bridge(sys, i, v) = RETURN_OK
    THEN Res(sys, RETURN_ERR, "none")
    ELSE AddInterfaceSteps(sys, g, i, v, f)

\* addInterface that does not look whether the interface is a member already.
vlan_hal_addInterface_NoMemberCheck(sys, g, i, v, f) ==
    IF is_this_group_available_in_linux_bridge(sys, g) # RETURN_OK
    THEN Res(sys, RETURN_ERR, "none")
    ELSE IF ~ValidVlanId(v)
    THEN Res(sys, RETURN_ERR, "none")
    ELSE IF InGroupWithOtherVlan(sys, g, i, v)
    THEN Res(sys, RETURN_ERR, "none")
    ELSE IF is_this_interface_available_in_linux_bridge(sys, i, v) = RETURN_OK
    THEN Res(sys, RETURN_ERR, "none")
    ELSE AddInterfaceSteps(sys, g, i, v, f)

vlan_hal_addInterface(sys, g, i, v, f) ==
    IF is_this_group_available_in_linux_bridge(sys, g) # RETURN_OK
    THEN Res(sys, RETURN_ERR, "none")
    ELSE IF ~ValidVlanId(v)
    THEN Res(sys, RETURN_ERR, "none")
    ELSE IF is_this_interface_available_in_given_linux_bridge(sys, i, g, v) = RETURN_OK
    THEN Res(sys, RETURN_OK, "none")
    ELSE IF InGroupWithOtherVlan(sys, g, i, v)
    THEN Res(sys, RETURN_ERR, "none")
    ELSE IF is_this_interface_available_in_linux_bridge(sys, i, v) = RETURN_OK
    THEN Res(sys, RETURN_ERR, "none")
    ELSE AddInterfaceSteps(sys, g, i, v, f)

\* detach, then untagInterface.
DelInterfaceSteps(sys, g, i, v, f) ==
    IF f = "detach"
    THEN Res(sys, RETURN_ERR, f)
    ELSE LET s1 == detach(sys, g, <<i, v>>)
         IN  IF f = "untag"
             THEN Res(s1, RETURN_ERR, f)
             ELSE Res(untagInterface(s1, i, v), RETURN_OK, "none")

\* The membership test of delInterface taken the wrong way round.
vlan_hal_delInterface_Inverted(sys, g, i, v, f) ==
    IF is_this_interface_available_in_given_linux_bridge(sys, i, g, v) = RETURN_OK
    THEN Res(sys, RETURN_OK, "none")
    ELSE DelInterfaceSteps(sys, g, i, v, f)

\* delInterface that reports an interface that is not a member as an error.
vlan_hal_delInterface_ErrIfAbsent(sys, g, i, v, f) ==
    IF is_this_interface_available_in_given_linux_bridge(sys, i, g, v) # RETURN_OK
    THEN Res(sys, RETURN_ERR, "none")
    ELSE DelInterfaceSteps(sys, g, i, v, f)

\* delInterface: success when not a member; else detach, then untagInterface.
vlan_hal_delInterface(sys, g, i, v, f) ==
    IF is_this_interface_available_in_given_linux_bridge(sys, i, g, v) # RETURN_OK
    THEN Res(sys, RETURN_OK, "none")
    ELSE DelInterfaceSteps(sys, g, i, v, f)

\* delInterface for each member of D, every command succeeding.
RECURSIVE DelEach(_, _, _)
DelEach(sys, g, D) ==
    IF D = {}
    THEN sys
    ELSE LET m == CHOOSE x \in D : TRUE
         IN  DelEach(vlan_hal_delInterface(sys, g, m[1], m[2], "none").sys, g, D \ {m})

\* How a walk over the members of g goes: NoFailure, or the members in done
\* are removed and then command f fails on member at.
NoFailure == [done |-> {}, at |-> <<>>, f |-> "none"]

FailurePlans(sys, g) ==
    {NoFailure} \cup
    {[done |-> D, at |-> m, f |-> f] :
        D \in SUBSET sys.members[g], m \in sys.members[g], f \in {"detach", "untag"}}

PlanOK(sys, g, plan) ==
    plan = NoFailure \/ (plan.at \in sys.members[g] /\ plan.at \notin plan.done)

\* deleteAllInterfaces that stops after the first member.
vlan_hal_delete_all_Interfaces_FirstOnly(sys, g, plan) ==
    IF is_this_group_available_in_linux_bridge(sys, g) # RETURN_OK
    THEN Res(sys, RETURN_ERR, "none")
    ELSE IF plan = NoFailure
    THEN IF sys.members[g] = {}
         THEN Res(sys, RETURN_OK, "none")
         ELSE Res(DelEach(sys, g, {CHOOSE m \in sys.members[g] : TRUE}), RETURN_OK, "none")
    ELSE vlan_hal_delInterface(DelEach(sys, g, plan.done), g,
                               plan.at[1], plan.at[2], plan.f)

\* deleteAllInterfaces that takes every port the bridge listing shows, those of
\* the other bridges included.
vlan_hal_delete_all_Interfaces_EveryBridge(sys, g, plan) ==
    IF is_this_group_available_in_linux_bridge(sys, g) # RETURN_OK
    THEN Res(sys, RETURN_ERR, "none")
    ELSE IF plan = NoFailure
    THEN Res([sys EXCEPT !.members = [b \in Groups |-> {}],
                         !.subifs = @ \ UNION {sys.members[b] : b \in Groups}],
             RETURN_OK, "none")
    ELSE vlan_hal_delInterface(DelEach(sys, g, plan.done), g,
                               plan.at[1], plan.at[2], plan.f)

\* deleteAllInterfaces: an error when the group does not exist; else
\* delInterface for each member, stopping at the first one that fails.
vlan_hal_delete_all_Interfaces(sys, g, plan) ==
    IF is_this_group_available_in_linux_bridge(sys, g) # RETURN_OK
    THEN Res(sys, RETURN_ERR, "none")
    ELSE IF plan = NoFailure
    THEN Res(DelEach(sys, g, sys.members[g]), RETURN_OK, "none")
    ELSE vlan_hal_delInterface(DelEach(sys, g, plan.done), g,
                               plan.at[1], plan.at[2], plan.f)

\* The steps of delGroup with the Config Store entry deleted first.
DelGroupSteps_EntryFirst(sys, g, plan, f) ==
    LET s0 == [sys EXCEPT !.store = delete_VLAN_ConfigEntry(sys.store, g).store]
        r  == vlan_hal_delete_all_Interfaces(s0, g, plan)
    IN  IF r.ret # RETURN_OK
        THEN r
        ELSE IF f = "destroyBridge"
        THEN Res(r.sys, RETURN_ERR, f)
        ELSE Res(destroyBridge(r.sys, g), RETURN_OK, "none")

\* Strip the members, destroy the bridge and only then delete the Config
\* Store entry; the first command that fails ends the call.
DelGroupSteps(sys, g, plan, f) ==
    LET r == vlan_hal_delete_all_Interfaces(sys, g, plan)
    IN  IF r.ret # RETURN_OK
        THEN r
        ELSE IF f = "destroyBridge"
        THEN Res(r.sys, RETURN_ERR, f)
        ELSE LET s1 == destroyBridge(r.sys, g)
             IN  Res([s1 EXCEPT !.store = delete_VLAN_ConfigEntry(s1.store, g).store],
                     RETURN_OK, "none")

\* delGroup that also drops the Config Store entry of a group that does not exist.
vlan_hal_delGroup_PurgeEntry(sys, g, plan, f) ==
    IF is_this_group_available_in_linux_bridge(sys, g) # RETURN_OK
    THEN Res([sys EXCEPT !.store = delete_VLAN_ConfigEntry(sys.store, g).store],
             RETURN_OK, "none")
    ELSE DelGroupSteps(sys, g, plan, f)

\* delGroup: success when the bridge does not exist; else the steps above.
vlan_hal_delGroup(sys, g, plan, f) ==
    IF is_this_group_available_in_linux_bridge(sys, g) # RETURN_OK
    THEN Res(sys, RETURN_OK, "none")
    ELSE DelGroupSteps(sys, g, plan, f)

-----------------------------------------------------------------------------
(* The calls.  last records the call that ended last: its arguments, its   *)
(* status, the command that failed in it, what held of its group when it   *)
(* began, and the call before it; allOk holds while every call so far has  *)
(* returned RETURN_OK.                                                     *)

Pre(sys, g, i, v) ==
    [bridge |-> g \in sys.bridges,
     entry  |-> get_vlanId_for_GroupName(sys.store, g).out,
     member |-> g \in Groups /\ <<i, v>> \in sys.members[g],
     nmem   |-> IF g \in Groups THEN Cardinality(sys.members[g]) ELSE 0]

Brief(c) == [v |-> c.v, bridge |-> c.pre.bridge]

\* The call before an addGroup, when it was a successful addGroup of the same group.
Before(op, g) ==
    IF op = "addGroup" /\ last.op = op /\ last.g = g /\ last.ret = RETURN_OK
    THEN <<Brief(last)>>
    ELSE <<>>

Call(op, g, i, v, r, out) ==
    [op |-> op, g |-> g, i |-> i, v |-> v, ret |-> r.ret, fail |-> r.fail,
     out |-> out, pre |-> Pre(Sys, g, i, v), before |-> Before(op, g)]

NoCall ==
    [op |-> "none", g |-> "", i |-> "", v |-> 0, ret |-> RETURN_OK, fail |-> "none",
     out |-> <<>>, pre |-> [bridge |-> FALSE, entry |-> <<>>, member |-> FALSE, nmem |-> 0],
     before |-> <<>>]

Return(c, r) ==
    /\ bridges' = r.sys.bridges
    /\ subifs' = r.sys.subifs
    /\ members' = r.sys.members
    /\ store' = r.sys.store
    /\ last' = c
    /\ allOk' = (allOk /\ r.ret = RETURN_OK)
    /\ UNCHANGED <<calls, lock>>

\* A caller that is in no call.
Idle ==
    [pc |-> "idle", op |-> "none", g |-> "", i |-> "", v |-> 0, plan |-> <<>>,
     idx |-> 0, saw |-> FALSE, ret |-> RETURN_OK, fail |-> "none"]

\* The lock of a host that serializes whole operations, free.
WholeOpLock == [discipline |-> "whole", owner |-> 0]

Init ==
    /\ bridges = {}
    /\ subifs = {}
    /\ members = [g \in Groups |-> {}]
    /\ store = <<>>
    /\ last = NoCall
    /\ allOk = TRUE
    /\ calls = [c \in Callers |-> Idle]
    /\ lock = WholeOpLock

addGroup ==
    \E g \in Groups, v \in VlanArgs, f \in {"none", "createBridge"} :
        LET r == vlan_hal_addGroup(Sys, g, v, f)
        IN  /\ r.fail = f
            /\ Return(Call("addGroup", g, "", v, r, <<>>), r)

delGroup ==
    \E g \in Groups, f \in {"none", "destroyBridge"} :
        \E plan \in FailurePlans(Sys, g) :
            /\ PlanOK(Sys, g, plan)
            /\ LET r == vlan_hal_delGroup(Sys, g, plan, f)
               IN  /\ r.fail = (IF plan = NoFailure THEN f ELSE plan.f)
                   /\ Return(Call("delGroup", g, "", 0, r, <<>>), r)

addInterface ==
    \E g \in Groups, i \in Ifs, v \in VlanArgs, f \in {"none", "tag", "attach"} :
        /\ <<i, v>> \in subifs \/ Cardinality(subifs) < MaxSubIfs
        /\ LET r == vlan_hal_addInterface(Sys, g, i, v, f)
           IN  /\ r.fail = f
               /\ Return(Call("addInterface", g, i, v, r, <<>>), r)

delInterface ==
    \E g \in Groups, i \in Ifs, v \in ValidVlanArgs, f \in {"none", "detach", "untag"} :
        LET r == vlan_hal_delInterface(Sys, g, i, v, f)
        IN  /\ r.fail = f
            /\ Return(Call("delInterface", g, i, v, r, <<>>), r)

deleteAllInterfaces ==
    \E g \in Groups :
        \E plan \in FailurePlans(Sys, g) :
            /\ PlanOK(Sys, g, plan)
            /\ LET r == vlan_hal_delete_all_Interfaces(Sys, g, plan)
               IN  /\ r.fail = plan.f
                   /\ Return(Call("deleteAllInterfaces", g, "", 0, r, <<>>), r)

insertConfigEntry ==
    \E g \in StoreNames, v \in ValidVlanArgs :
        LET ins == insert_VLAN_ConfigEntry(store, g, v)
            r   == Res([Sys EXCEPT !.store = ins.store], ins.ret, "none")
        IN  /\ r.fail = "none"
            /\ Return(Call("insertConfigEntry", g, "", v, r, <<>>), r)

deleteConfigEntry ==
    \E g \in Groups :
        LET del == delete_VLAN_ConfigEntry(store, g)
            r   == Res([Sys EXCEPT !.store = del.store], del.ret, "none")
        IN  /\ r.fail = "none"
            /\ Return(Call("deleteConfigEntry", g, "", 0, r, <<>>), r)

getVlanIdForGroupName ==
    \E g \in Groups :
        LET got == get_vlanId_for_GroupName(store, g)
            r   == Res(Sys, got.ret, "none")
        IN  /\ r.fail = "none"
            /\ Return(Call("getVlanIdForGroupName", g, "", 0, r, got.out), r)

Next ==
    \/ addGroup
    \/ delGroup
    \/ addInterface
    \/ delInterface
    \/ deleteAllInterfaces
    \/ insertConfigEntry
    \/ deleteConfigEntry
    \/ getVlanIdForGroupName

Spec == Init /\ [][Next]_vars

-----------------------------------------------------------------------------
(* Concurrent callers.  A call is a sequence of steps: the caller enters,  *)
(* probes the live state and the Config Store and settles which commands   *)
(* to run, runs them one by one, and leaves with the status.  Between two  *)
(* steps of one caller the other callers may take steps, unless the host's *)
(* lock keeps them out.  The lock disciplines: "whole" (taken on entry,    *)
(* released on leaving), "write" (taken before the first command, released *)
(* after the last; the probe is outside), "none".                          *)

\* A lock that lets every caller in.
TryLock_NoExclusion(l, c) == [ok |-> TRUE, lock |-> [l EXCEPT !.owner = c]]

\* Taking the lock: granted only while no caller owns it.
TryLock(l, c) == [ok |-> l.owner = 0, lock |-> [l EXCEPT !.owner = c]]

Unlock(l, c) == IF l.owner = c THEN [l EXCEPT !.owner = 0] ELSE l

\* A command of a call; sub is the VLAN sub-interface it works on, if any.
Cmd(name, sub) == [cmd |-> name, sub |-> sub]

NoSub == <<"", 0>>

GatewayCmds == {"createBridge", "destroyBridge", "tag", "attach", "detach", "untag"}

\* detach and untagInterface for each member of D.
RECURSIVE MemberCmds(_)
MemberCmds(D) ==
    IF D = {}
    THEN <<>>
    ELSE LET m == CHOOSE x \in D : TRUE
         IN  <<Cmd("detach", m), Cmd("untag", m)>> \o MemberCmds(D \ {m})

Settled(ret) == [ret |-> ret, plan |-> <<>>]

\* The probe of a call: the status it returns at once (plan <<>>), or the
\* commands it goes on to run.  insert is the search of the list ("find")
\* followed by the write ("link").
PlanOf(sys, op, g, i, v) ==
    CASE op = "addGroup" ->
            IF ~ValidVlanId(v)
            THEN Settled(RETURN_ERR)
            ELSE IF is_this_group_available_in_linux_bridge(sys, g) = RETURN_OK
            THEN LET cur == get_vlanId_for_GroupName(sys.store, g)
                 IN  IF cur.ret = RETURN_OK
                     THEN Settled(IF cur.out = <<v>> THEN RETURN_OK ELSE RETURN_ERR)
                     ELSE [ret |-> RETURN_OK, plan |-> <<Cmd("find", NoSub), Cmd("link", NoSub)>>]
            ELSE [ret |-> RETURN_OK,
                  plan |-> <<Cmd("createBridge", NoSub), Cmd("find", NoSub), Cmd("link", NoSub)>>]
      [] op = "delGroup" ->
            IF is_this_group_available_in_linux_bridge(sys, g) # RETURN_OK
            THEN Settled(RETURN_OK)
            ELSE [ret |-> RETURN_OK,
                  plan |-> MemberCmds(sys.members[g])
                            \o <<Cmd("destroyBridge", NoSub), Cmd("delete", NoSub)>>]
      [] op = "addInterface" ->
            IF is_this_group_available_in_linux_bridge(sys, g) # RETURN_OK
            THEN Settled(RETURN_ERR)
            ELSE IF ~ValidVlanId(v)
            THEN Settled(RETURN_ERR)
            ELSE IF is_this_interface_available_in_given_linux_bridge(sys, i, g, v) = RETURN_OK
            THEN Settled(RETURN_OK)
            ELSE IF InGroupWithOtherVlan(sys, g, i, v)
            THEN Settled(RETURN_ERR)
            ELSE IF is_this_interface_available_in_linux_bridge(sys, i, v) = RETURN_OK
            THEN Settled(RETURN_ERR)
            ELSE [ret |-> RETURN_OK, plan |-> <<Cmd("tag", <<i, v>>), Cmd("attach", <<i, v>>)>>]
      [] op = "delInterface" ->
            IF is_this_interface_available_in_given_linux_bridge(sys, i, g, v) # RETURN_OK
            THEN Settled(RETURN_OK)
            ELSE [ret |-> RETURN_OK, plan |-> MemberCmds({<<i, v>>})]
      [] op = "deleteAllInterfaces" ->
            IF is_this_group_available_in_linux_bridge(sys, g) # RETURN_OK
            THEN Settled(RETURN_ERR)
            ELSE [ret |-> RETURN_OK, plan |-> MemberCmds(sys.members[g])]

\* The write of insert that refuses a group the search has found.
LinkEntry_RejectBound(s, g, v, idx) ==
    IF idx = 0 \/ idx > Len(s)
    THEN [ret |-> RETURN_OK, store |-> Append(s, vlan_vlanidconfiguration_t(g, v))]
    ELSE [ret |-> RETURN_ERR, store |-> s]

\* The write of insert: idx is where the search found the entry of g (0: not
\* found); the entry there is updated, or a new entry is linked at the end.
LinkEntry(s, g, v, idx) ==
    IF idx = 0 \/ idx > Len(s)
    THEN [ret |-> RETURN_OK, store |-> Append(s, vlan_vlanidconfiguration_t(g, v))]
    ELSE [ret |-> RETURN_OK, store |-> [s EXCEPT ![idx] = vlan_vlanidconfiguration_t(g, v)]]

Went(sys, idx) == [ok |-> TRUE, sys |-> sys, idx |-> idx]

Failed(sys, idx) == [ok |-> FALSE, sys |-> sys, idx |-> idx]

\* The outcomes of command cmd of a call on group g with VLAN ID v, run on sys.
\* A bridge/VLAN command may fail when the Gateway is faulty; it fails when
\* what it works on is not there; creating a bridge that exists and
\* destroying one that does not either fail or do nothing.
Exec(sys, g, v, cmd, idx, faulty) ==
    LET sub   == cmd.sub
        fault == IF faulty /\ cmd.cmd \in GatewayCmds THEN {Failed(sys, idx)} ELSE {}
    IN  CASE cmd.cmd = "createBridge" ->
                IF g \in sys.bridges
                THEN {Failed(sys, idx), Went(sys, idx)}
                ELSE {Went(createBridge(sys, g), idx)} \cup fault
          [] cmd.cmd = "destroyBridge" ->
                IF g \notin sys.bridges
                THEN {Failed(sys, idx), Went(sys, idx)}
                ELSE {Went(destroyBridge(sys, g), idx)} \cup fault
          [] cmd.cmd = "tag" -> {Went(tagInterface(sys, sub[1], sub[2]), idx)} \cup fault
          [] cmd.cmd = "attach" ->
                IF \/ g \notin sys.bridges
                   \/ sub \notin sys.subifs
                   \/ is_this_interface_available_in_linux_bridge(sys, sub[1], sub[2]) = RETURN_OK
                THEN {Failed(sys, idx)}
                ELSE {Went(attach(sys, g, sub), idx)} \cup fault
          [] cmd.cmd = "detach" ->
                IF g \notin sys.bridges \/ sub \notin sys.members[g]
                THEN {Failed(sys, idx)}
                ELSE {Went(detach(sys, g, sub), idx)} \cup fault
          [] cmd.cmd = "untag" ->
                IF sub \notin sys.subifs
                THEN {Failed(sys, idx)}
                ELSE {Went([untagInterface(sys, sub[1], sub[2])
                                EXCEPT !.members = [b \in Groups |-> @[b] \ {sub}]], idx)}
                     \cup fault
          [] cmd.cmd = "find" ->
                {Went(sys, IF EntryIdx(sys.store, g) = {} THEN 0 ELSE FirstIdx(sys.store, g))}
          [] cmd.cmd = "link" ->
                LET w == LinkEntry(sys.store, g, v, idx)
                IN  {[ok |-> w.ret = RETURN_OK, sys |-> [sys EXCEPT !.store = w.store], idx |-> idx]}
          [] cmd.cmd = "delete" ->
                {Went([sys EXCEPT !.store = delete_VLAN_ConfigEntry(sys.store, g).store], idx)}

\* The Orchestrator entry points that change the state.
MutatingOps == {"addGroup", "delGroup", "addInterface", "delInterface", "deleteAllInterfaces"}

SetSys(sys) ==
    /\ bridges' = sys.bridges
    /\ subifs' = sys.subifs
    /\ members' = sys.members
    /\ store' = sys.store
    /\ UNCHANGED <<last, allOk>>

\* The interface and VLAN ID arguments a caller passes to op.
ArgsOf(op, vlans) ==
    CASE op = "addGroup" -> {<<"", v>> : v \in vlans}
      [] op \in {"addInterface", "delInterface"} -> Ifs \X ValidVlanArgs
      [] OTHER -> {<<"", 0>>}

\* Caller c enters a call; under the "whole" discipline it takes the lock first.
Enter(c, ops, vlans) ==
    /\ calls[c].pc = "idle"
    /\ \E op \in ops, g \in Groups :
        \E a \in ArgsOf(op, vlans) :
            /\ op = "addInterface" => (a \in subifs \/ Cardinality(subifs) < MaxSubIfs)
            /\ IF lock.discipline = "whole"
               THEN TryLock(lock, c).ok /\ lock' = TryLock(lock, c).lock
               ELSE lock' = lock
            /\ calls' = [calls EXCEPT ![c] =
                            [Idle EXCEPT !.pc = "probe", !.op = op, !.g = g,
                                         !.i = a[1], !.v = a[2]]]
            /\ UNCHANGED <<bridges, subifs, members, store, last, allOk>>

\* Caller c probes: it returns at once or settles the commands to run.
Probe(c) ==
    /\ calls[c].pc = "probe"
    /\ LET k == calls[c]
           p == PlanOf(Sys, k.op, k.g, k.i, k.v)
       IN  calls' = [calls EXCEPT ![c] =
                        IF p.plan = <<>>
                        THEN [k EXCEPT !.pc = "done", !.ret = p.ret, !.saw = k.g \in bridges]
                        ELSE [k EXCEPT !.pc = "run", !.plan = p.plan, !.saw = k.g \in bridges]]
    /\ UNCHANGED <<bridges, subifs, members, store, last, allOk, lock>>

\* Caller c runs its next command; a command that fails ends the call.  Under
\* the "write" discipline the lock is taken before the first command and
\* released after the last.
Step(c, faulty) ==
    /\ calls[c].pc = "run"
    /\ lock.discipline = "write" => (lock.owner = c \/ TryLock(lock, c).ok)
    /\ LET k == calls[c]
       IN  \E o \in Exec(Sys, k.g, k.v, Head(k.plan), k.idx, faulty) :
             LET ends == ~o.ok \/ Len(k.plan) = 1
             IN  /\ SetSys(o.sys)
                 /\ calls' = [calls EXCEPT ![c] =
                        IF ends
                        THEN [k EXCEPT !.pc = "done", !.plan = <<>>, !.idx = 0,
                                       !.ret = IF o.ok THEN RETURN_OK ELSE RETURN_ERR,
                                       !.fail = IF o.ok THEN "none" ELSE Head(k.plan).cmd]
                        ELSE [k EXCEPT !.plan = Tail(@), !.idx = o.idx]]
                 /\ lock' = IF lock.discipline # "write" THEN lock
                            ELSE IF ends THEN [lock EXCEPT !.owner = 0]
                            ELSE TryLock(lock, c).lock

\* Caller c leaves with the status; under the "whole" discipline it releases the lock.
Leave(c) ==
    /\ calls[c].pc = "done"
    /\ calls' = [calls EXCEPT ![c] = Idle]
    /\ lock' = IF lock.discipline = "whole" THEN Unlock(lock, c) ELSE lock
    /\ UNCHANGED <<bridges, subifs, members, store, last, allOk>>

callEnter == \E c \in Callers : Enter(c, MutatingOps, VlanArgs)

callProbe == \E c \in Callers : Probe(c)

callStep == \E c \in Callers : Step(c, TRUE)

callLeave == \E c \in Callers : Leave(c)

\* Any number of callers, every call under the whole-operation lock, the
\* Gateway faulty.
NextLocked == callEnter \/ callProbe \/ callStep \/ callLeave

SpecLocked == Init /\ [][NextLocked]_vars

\* The two callers of the race.
Racers == {1, 2}

raceEnter == \E c \in Racers : Enter(c, {"addGroup"}, ValidVlanArgs)

raceProbe == \E c \in Racers : Probe(c)

raceStep == \E c \in Racers : Step(c, FALSE)

raceLeave == \E c \in Racers : Leave(c)

InitUnlocked ==
    /\ bridges = {}
    /\ subifs = {}
    /\ members = [g \in Groups |-> {}]
    /\ store = <<>>
    /\ last = NoCall
    /\ allOk = TRUE
    /\ calls = [c \in Callers |-> Idle]
    /\ lock \in {[discipline |-> d, owner |-> 0] : d \in {"write", "none"}}

\* Two callers of addGroup with valid arguments, no whole-operation lock, the
\* Gateway sound.
NextUnlocked == raceEnter \/ raceProbe \/ raceStep \/ raceLeave

SpecUnlocked == InitUnlocked /\ [][NextUnlocked]_vars

-----------------------------------------------------------------------------
(* Properties.                                                             *)

InRange(v) == v >= MinVlanId /\ v <= MaxVlanId

NumEntries(g) == Cardinality({k \in 1..Len(store) : store[k].groupName = g})

\* The VLAN ID the Config Store returns for g: <<vlanID>>, or <<>> when not found.
StoredVlan(g) == get_vlanId_for_GroupName(store, g).out

IsMember(i, g, v) ==
    is_this_interface_available_in_given_linux_bridge(Sys, i, g, v) = RETURN_OK

InAnyBridge(i, v) == is_this_interface_available_in_linux_bridge(Sys, i, v) = RETURN_OK

LiveAndStore == <<bridges, subifs, members, store>>

\* C1: an addGroup(g, v) with v in 1..4094 on a bridge that does not exist, every
\* command succeeding, returns success and leaves bridge g with exactly one
\* Config Store entry, bound to v; the same call made again right after it
\* returns success too and leaves exactly that.
C1_AddGroupTwice ==
    (last.op = "addGroup" /\ InRange(last.v) /\ last.fail = "none"
        /\ (~last.pre.bridge \/ last.before = <<[v |-> last.v, bridge |-> FALSE]>>))
    => /\ last.ret = RETURN_OK
       /\ last.g \in bridges
       /\ NumEntries(last.g) = 1
       /\ StoredVlan(last.g) = <<last.v>>

\* C1 witness: the second of two successive addGroup(g, v), the first of which
\* found no bridge g, has returned success.
C1_Witness ==
    /\ last.op = "addGroup"
    /\ last.before = <<[v |-> last.v, bridge |-> FALSE]>>
    /\ last.pre.bridge
    /\ last.ret = RETURN_OK

\* C2: an addGroup(g, v2) right after a successful addGroup(g, v1), with v2 in
\* 1..4094 and different from v1, returns failure; the Config Store still
\* returns v1 for g and bridge g still exists.
C2_AddGroupConflict ==
    (last.op = "addGroup" /\ InRange(last.v)
        /\ last.before # <<>> /\ last.before[1].v # last.v)
    => /\ last.ret = RETURN_ERR
       /\ StoredVlan(last.g) = <<last.before[1].v>>
       /\ last.g \in bridges

\* C2 witness: addGroup(g, 4094) right after a successful addGroup(g, 1).
C2_Witness ==
    /\ last.op = "addGroup"
    /\ last.v = MaxVlanId
    /\ last.before # <<>>
    /\ last.before[1].v = MinVlanId
    /\ last.ret = RETURN_ERR

\* C3 as claimed: whenever a mutating operation on group g returns success,
\* bridge g exists exactly when the Config Store has an entry for g, and after
\* the addGroup that created the group the entry carries the VLAN ID it was
\* created with.  (Refuted: delGroup succeeds on a group that does not exist
\* and leaves a directly inserted entry behind.)
C3_SuccessMeansAgreement ==
    (last.op \in MutatingOps /\ last.ret = RETURN_OK)
    => /\ (last.g \in bridges) <=> (StoredVlan(last.g) # <<>>)
       /\ (last.op = "addGroup" /\ ~last.pre.bridge) => StoredVlan(last.g) = <<last.v>>

\* C3 amended: whenever a mutating operation on group g returns success from a
\* state in which bridge g existed exactly when the Config Store had an entry
\* for g, then in the resulting state bridge g exists exactly when the store
\* has an entry for g, and that entry carries the VLAN ID the group was
\* created with: the one requested when the call created the group, the one
\* recorded before the call otherwise.
C3_AgreementPreserved ==
    (last.op \in MutatingOps /\ last.ret = RETURN_OK
        /\ (last.pre.bridge <=> (last.pre.entry # <<>>)))
    => /\ (last.g \in bridges) <=> (StoredVlan(last.g) # <<>>)
       /\ (last.g \in bridges) =>
            StoredVlan(last.g) = (IF last.pre.bridge THEN last.pre.entry ELSE <<last.v>>)

\* C3 witness: a successful delGroup of a group that had its entry and two members.
C3_Witness ==
    /\ last.op = "delGroup"
    /\ last.ret = RETURN_OK
    /\ last.pre.bridge
    /\ last.pre.entry # <<>>
    /\ last.pre.nmem = 2
    /\ last.g \notin bridges

\* C4 as claimed: while every call so far has returned success, for every group
\* with a Config Store entry the VLAN ID the store returns is the VLAN ID of
\* every member interface of the group's bridge.
C4_StoredVlanOnEveryMember ==
    allOk => \A g \in Groups :
                StoredVlan(g) # <<>> => \A m \in members[g] : StoredVlan(g) = <<m[2]>>

\* C5: a delGroup(g) called when bridge g does not exist returns success and
\* leaves the bridges, the sub-interfaces, every membership and the Config
\* Store (a stale entry for g included) as they were.
C5_DelGroupAbsentIsNoOp ==
    [][(last'.op = "delGroup" /\ last'.g \notin bridges)
        => (last'.ret = RETURN_OK /\ UNCHANGED LiveAndStore)]_vars

\* C5 witness: delGroup has returned success for a group with no bridge and a
\* stale Config Store entry, which is still there.
C5_Witness ==
    /\ last.op = "delGroup"
    /\ ~last.pre.bridge
    /\ last.ret = RETURN_OK
    /\ last.pre.entry # <<>>
    /\ StoredVlan(last.g) = last.pre.entry

\* C6: when delGroup(g) returns success on an existing group, bridge g does not
\* exist, no interface is a member of g and the Config Store has no entry for g.
C6_DelGroupRemovesAll ==
    (last.op = "delGroup" /\ last.pre.bridge /\ last.ret = RETURN_OK)
    => /\ last.g \notin bridges
       /\ \A i \in Ifs, v \in VlanArgs : ~IsMember(i, last.g, v)
       /\ members[last.g] = {}
       /\ NumEntries(last.g) = 0

\* C6 witness: a successful delGroup of a group with two members whose entry
\* was the first of the Config Store.
C6_Witness ==
    /\ last.op = "delGroup"
    /\ last.pre.bridge
    /\ last.pre.nmem = 2
    /\ last.pre.entry # <<>>
    /\ last.ret = RETURN_OK
    /\ Len(store) = 1

\* C7: a delGroup(g) in which a bridge/VLAN command fails returns failure, and
\* whenever bridge g exists after a delGroup(g) the Config Store returns for g
\* what it returned before the call.
C7_EntryOutlivesBridge ==
    last.op = "delGroup"
    => /\ last.fail # "none" => last.ret = RETURN_ERR
       /\ (last.fail # "none" \/ last.g \in bridges) => StoredVlan(last.g) = last.pre.entry

\* C7 witness: destroyBridge failed in a delGroup of a group with a member and an entry.
C7_Witness ==
    /\ last.op = "delGroup"
    /\ last.fail = "destroyBridge"
    /\ last.pre.nmem > 0
    /\ last.pre.entry # <<>>
    /\ last.g \in bridges
    /\ StoredVlan(last.g) = last.pre.entry

\* C8: addGroup(g, v) with v outside 1..4094 returns failure and creates neither
\* a bridge nor a Config Store entry; with v = 1 or v = 4094, no bridge g and
\* every command succeeding it returns success.
C8_AddGroupRange ==
    last.op = "addGroup"
    => /\ (last.v < 1 \/ last.v > 4094)
            => /\ last.ret = RETURN_ERR
               /\ (last.g \in bridges) <=> last.pre.bridge
               /\ StoredVlan(last.g) = last.pre.entry
       /\ (last.v \in {1, 4094} /\ ~last.pre.bridge /\ last.fail = "none")
            => last.ret = RETURN_OK

\* C8 witness: addGroup(g, 4095) was rejected while no bridge g existed.
C8_Witness ==
    /\ last.op = "addGroup"
    /\ last.v = 4095
    /\ last.ret = RETURN_ERR
    /\ last.g \notin bridges
    /\ StoredVlan(last.g) = <<>>

\* C9: after a successful addInterface(g, i, v) the interface is a member of g
\* under v; after a successful delInterface(g, i, v) of a member it is a member
\* neither of g nor of any other bridge under v.
C9_MembershipRoundTrip ==
    /\ (last.op = "addInterface" /\ last.ret = RETURN_OK)
            => IsMember(last.i, last.g, last.v)
    /\ (last.op = "delInterface" /\ last.ret = RETURN_OK)
            => ~IsMember(last.i, last.g, last.v)
    /\ (last.op = "delInterface" /\ last.ret = RETURN_OK /\ last.pre.member)
            => ~InAnyBridge(last.i, last.v)

\* C9 witness: a member was removed by a successful delInterface.
C9_Witness ==
    /\ last.op = "delInterface"
    /\ last.pre.member
    /\ last.ret = RETURN_OK
    /\ ~IsMember(last.i, last.g, last.v)

\* C10: a deleteAllInterfaces(g) that returns success on an existing bridge
\* leaves no member in g; on a bridge with no member it returns success and
\* changes nothing.
C10_DeleteAllLeavesNone ==
    [][last'.op = "deleteAllInterfaces"
        => /\ (last'.g \in bridges /\ last'.ret = RETURN_OK)
                => /\ members'[last'.g] = {}
                   /\ \A i \in Ifs, v \in VlanArgs :
                        is_this_interface_available_in_given_linux_bridge(
                            Sys', i, last'.g, v) = RETURN_ERR
           /\ (last'.g \in bridges /\ members[last'.g] = {})
                => (last'.ret = RETURN_OK /\ UNCHANGED LiveAndStore)]_vars

\* C10 witness: a successful deleteAllInterfaces of a bridge that had two members.
C10_Witness ==
    /\ last.op = "deleteAllInterfaces"
    /\ last.pre.bridge
    /\ last.pre.nmem = 2
    /\ last.ret = RETURN_OK
    /\ members[last.g] = {}

\* C11: in every reachable state the Config Store holds at most one entry per
\* group name, and an insertConfigEntry(g, v) made when the store already
\* returned v for g (the same pair inserted again) leaves exactly one entry for g.
C11_OneEntryPerGroup ==
    /\ \A g \in StoreNames : NumEntries(g) <= 1
    /\ (last.op = "insertConfigEntry" /\ last.pre.entry = <<last.v>>)
            => NumEntries(last.g) = 1

\* C11 witness: the pair (g, v) was inserted while g was already bound to v, next
\* to the entry of another group.
C11_Witness ==
    /\ last.op = "insertConfigEntry"
    /\ last.pre.entry = <<last.v>>
    /\ last.ret = RETURN_OK
    /\ NumEntries(last.g) = 1
    /\ Len(store) = 2

\* C12: an addInterface(g, i, v) called when bridge g does not exist, or with v
\* outside 1..4094, returns failure; it creates no VLAN sub-interface, changes no
\* bridge membership and leaves the Config Store unchanged.
C12_AddInterfaceRejects ==
    [][(last'.op = "addInterface"
            /\ (last'.g \notin bridges \/ last'.v < 1 \/ last'.v > 4094))
        => (last'.ret = RETURN_ERR /\ UNCHANGED LiveAndStore)]_vars

\* C12 witness: addInterface(g, i, 4095) was rejected on an existing bridge g,
\* and no sub-interface i.4095 exists.
C12_Witness ==
    /\ last.op = "addInterface"
    /\ last.v = 4095
    /\ last.pre.bridge
    /\ last.ret = RETURN_ERR
    /\ <<last.i, last.v>> \notin subifs
    /\ members[last.g] # {}

\* C13 as claimed: an addInterface(g, i, v) called when i is a member of g or of
\* any other bridge under a VLAN ID different from v returns failure and leaves
\* sub-interfaces, memberships and Config Store as they were.  (Refuted: the
\* same parent interface joins a second bridge under a second VLAN ID.)
C13_ConflictAnywhereRejected ==
    [][(last'.op = "addInterface"
            /\ \E b \in bridges, v2 \in VlanArgs :
                    v2 # last'.v /\ <<last'.i, v2>> \in members[b])
        => (last'.ret = RETURN_ERR /\ UNCHANGED LiveAndStore)]_vars

\* C13 amended: an addInterface(g, i, v) called when i is a member of g under a
\* VLAN ID different from v returns failure and leaves sub-interfaces,
\* memberships and Config Store as they were; and no addInterface removes a
\* sub-interface or a membership, so an attached interface is never re-tagged.
C13_ConflictInGroupRejected ==
    [][last'.op = "addInterface"
        => /\ (last'.g \in bridges
                 /\ \E v2 \in VlanArgs : v2 # last'.v /\ <<last'.i, v2>> \in members[last'.g])
                => (last'.ret = RETURN_ERR /\ UNCHANGED LiveAndStore)
           /\ subifs \subseteq subifs'
           /\ \A b \in Groups : members[b] \subseteq members'[b]]_vars

\* C13 witness: addInterface(g, i, 4094) was rejected while i.1 is a member of g.
C13_Witness ==
    /\ last.op = "addInterface"
    /\ last.v = MaxVlanId
    /\ last.ret = RETURN_ERR
    /\ last.g \in bridges
    /\ <<last.i, MinVlanId>> \in members[last.g]
    /\ <<last.i, MaxVlanId>> \notin subifs

\* C14: an addInterface(g, i, v) called when i is a member of bridge g under v
\* returns success and leaves memberships, sub-interfaces, bridges and Config
\* Store unchanged.
C14_AddInterfaceAgainIsNoOp ==
    [][(last'.op = "addInterface" /\ last'.g \in bridges
            /\ <<last'.i, last'.v>> \in members[last'.g])
        => (last'.ret = RETURN_OK /\ UNCHANGED LiveAndStore)]_vars

\* C14 witness: addInterface has returned success for an interface that was a
\* member of the bridge under that VLAN ID when the call began.
C14_Witness ==
    /\ last.op = "addInterface"
    /\ last.pre.bridge
    /\ last.pre.member
    /\ last.ret = RETURN_OK
    /\ IsMember(last.i, last.g, last.v)

C16_LookupMissFails ==
    last.op = "getVlanIdForGroupName"
    => IF \A k \in 1..Len(store) : store[k].groupName # last.g
       THEN last.ret = RETURN_ERR /\ last.out = <<>>
       ELSE /\ last.ret = RETURN_OK
            /\ \E k \in 1..Len(store) :
                    store[k].groupName = last.g /\ last.out = <<store[k].vlanID>>

\* C16 witness: the lookup failed for a group whose bridge exists, its entry
\* having been deleted after addGroup had recorded it.
C16_Witness ==
    /\ last.op = "getVlanIdForGroupName"
    /\ last.g \in bridges
    /\ NumEntries(last.g) = 0
    /\ last.ret = RETURN_ERR
    /\ last.out = <<>>

\* C17 as claimed: a deleteConfigEntry(g) returns success whether or not the
\* Config Store has an entry for g; it removes the entry when there is one and
\* leaves the store unchanged when there is none.  (Refuted: "entry not found"
\* is reported as RETURN_ERR.)
C17_DeleteAlwaysSucceeds ==
    [][last'.op = "deleteConfigEntry"
        => /\ last'.ret = RETURN_OK
           /\ store' = SelectSeq(store, LAMBDA e : e.groupName # last'.g)]_vars

\* C17 amended: a deleteConfigEntry(g) removes the entry for g when there is one,
\* keeps every other entry and returns success; when there is no entry for g it
\* returns failure and leaves the Config Store unchanged.  The bridges, the
\* sub-interfaces and the memberships are untouched either way.
C17_DeleteReportsMiss ==
    [][last'.op = "deleteConfigEntry"
        => /\ store' = SelectSeq(store, LAMBDA e : e.groupName # last'.g)
           /\ last'.ret = (IF \E k \in 1..Len(store) : store[k].groupName = last'.g
                           THEN RETURN_OK ELSE RETURN_ERR)
           /\ UNCHANGED <<bridges, subifs, members>>]_vars

\* C17 witness: deleteConfigEntry(g) has returned failure, g having no entry in
\* a Config Store that holds the entry of the other group.
C17_Witness ==
    /\ last.op = "deleteConfigEntry"
    /\ last.pre.entry = <<>>
    /\ last.ret = RETURN_ERR
    /\ NumEntries(last.g) = 0
    /\ Len(store) = 1

\* C18: an insertConfigEntry(g, v) with a non-empty g returns success whether g
\* was unbound, bound to v or bound to another VLAN ID; right after it the
\* lookup of g returns v and the lookup of every other group name returns what
\* it returned before.
C18_InsertBindsOrUpdates ==
    [][(last'.op = "insertConfigEntry" /\ last'.g # "")
        => /\ last'.ret = RETURN_OK
           /\ get_vlanId_for_GroupName(store', last'.g) = [ret |-> RETURN_OK, out |-> <<last'.v>>]
           /\ \A h \in Groups \ {last'.g} :
                get_vlanId_for_GroupName(store', h) = get_vlanId_for_GroupName(store, h)]_vars

\* C18 witness: insertConfigEntry(g, v) has rebound a group that was bound to
\* another VLAN ID, next to the entry of the other group.
C18_Witness ==
    /\ last.op = "insertConfigEntry"
    /\ last.pre.entry # <<>>
    /\ last.pre.entry # <<last.v>>
    /\ last.ret = RETURN_OK
    /\ StoredVlan(last.g) = <<last.v>>
    /\ Len(store) = 2

\* C19: a call in which a bridge/VLAN command fails returns failure, runs no
\* later step (the bridges and the Config Store stay as they were, nothing is
\* attached after a failed tagInterface, nothing untagged after a failed detach)
\* and keeps what the earlier steps did: after a failed attach the sub-interface
\* is tagged and not attached, after a failed untagInterface the member is
\* detached and still tagged, after a failed destroyBridge the members are gone
\* and the bridge and its entry remain; a walk over the members keeps the
\* removals made before the failing member.
C19_FailedStepStopsCall ==
    [][last'.fail # "none"
        => /\ last'.ret = RETURN_ERR
           /\ UNCHANGED <<bridges, store>>
           /\ \A h \in Groups \ {last'.g} : members'[h] = members[h]
           /\ last'.fail \in {"createBridge", "tag"} => UNCHANGED LiveAndStore
           /\ last'.fail = "attach"
                => /\ subifs' = subifs \cup {<<last'.i, last'.v>>}
                   /\ members' = members
           /\ (last'.op = "delInterface" /\ last'.fail = "detach") => UNCHANGED LiveAndStore
           /\ (last'.op = "delInterface" /\ last'.fail = "untag")
                => /\ members'[last'.g] = members[last'.g] \ {<<last'.i, last'.v>>}
                   /\ subifs' = subifs
           /\ (last'.op \in {"deleteAllInterfaces", "delGroup"} /\ last'.fail = "detach")
                => /\ members'[last'.g] \subseteq members[last'.g]
                   /\ members'[last'.g] # {}
                   /\ subifs' = subifs \ (members[last'.g] \ members'[last'.g])
           /\ (last'.op \in {"deleteAllInterfaces", "delGroup"} /\ last'.fail = "untag")
                => /\ members'[last'.g] \subseteq members[last'.g]
                   /\ \E m \in members[last'.g] \ members'[last'.g] :
                        subifs' = subifs \ ((members[last'.g] \ members'[last'.g]) \ {m})
           /\ last'.fail = "destroyBridge"
                => /\ last'.g \in bridges'
                   /\ members'[last'.g] = {}
                   /\ subifs' = subifs \ members[last'.g]]_vars

\* C19 witness: attach failed in an addInterface, which returned failure; the
\* sub-interface is tagged and a member of no bridge.
C19_Witness ==
    /\ last.op = "addInterface"
    /\ last.fail = "attach"
    /\ last.ret = RETURN_ERR
    /\ <<last.i, last.v>> \in subifs
    /\ ~InAnyBridge(last.i, last.v)

\* C20 as claimed: when a call in which a bridge/VLAN command failed is repeated
\* right away with the same arguments and every command succeeds, the repeated
\* call returns success and leaves what an uninterrupted call leaves: addGroup
\* the bridge with its entry bound to v, addInterface the tagged sub-interface
\* attached to g, delInterface the sub-interface neither attached nor tagged,
\* deleteAllInterfaces no member in g, delGroup neither bridge nor entry.
\* (Refuted: after a failed untagInterface the repeated delInterface finds no
\* member, returns success and leaves the sub-interface tagged.)
C20_RetryReachesSameState ==
    [][(last.fail # "none" /\ last'.fail = "none"
            /\ last'.op = last.op /\ last'.g = last.g
            /\ last'.i = last.i /\ last'.v = last.v)
        => /\ last'.ret = RETURN_OK
           /\ last'.op = "addGroup"
                => /\ last'.g \in bridges'
                   /\ get_vlanId_for_GroupName(store', last'.g).out = <<last'.v>>
           /\ last'.op = "addInterface"
                => /\ <<last'.i, last'.v>> \in subifs'
                   /\ <<last'.i, last'.v>> \in members'[last'.g]
           /\ last'.op = "delInterface"
                => /\ <<last'.i, last'.v>> \notin members'[last'.g]
                   /\ <<last'.i, last'.v>> \notin subifs'
           /\ last'.op = "deleteAllInterfaces" => members'[last'.g] = {}
           /\ last'.op = "delGroup"
                => /\ last'.g \notin bridges'
                   /\ members'[last'.g] = {}
                   /\ get_vlanId_for_GroupName(store', last'.g).out = <<>>]_vars

\* The number of entries of group g in list s.
EntriesOf(s, g) == Cardinality({k \in 1..Len(s) : s[k].groupName = g})

\* C21: with every call made under the whole-operation lock, whatever the number
\* of callers and the order of their steps: in every state in which no caller is
\* inside a call the Config Store holds at most one entry per group and bridge g
\* exists exactly when g has an entry; and every call that returns success
\* leaves bridge g existing exactly when the store has one entry for g, which
\* after an addGroup(g, v) is bound to v.
C21_LockedCallsAgree ==
    [][/\ (\A c \in Callers : calls'[c].pc = "idle")
            => \A g \in Groups :
                    /\ EntriesOf(store', g) <= 1
                    /\ (g \in bridges') <=> (EntriesOf(store', g) = 1)
       /\ \A c \in Callers :
            (calls[c].pc \in {"probe", "run"} /\ calls'[c].pc = "done"
                /\ calls'[c].ret = RETURN_OK)
            => /\ EntriesOf(store', calls[c].g) <= 1
               /\ (calls[c].g \in bridges') <=> (EntriesOf(store', calls[c].g) = 1)
               /\ calls[c].op = "addGroup"
                    => get_vlanId_for_GroupName(store', calls[c].g).out = <<calls[c].v>>
      ]_vars

\* C21 witness: caller 2, holding the lock, has created group g by a
\* successful addGroup(g, v) while the other group, with a member, exists.
C21_Witness ==
    /\ calls[2].pc = "done"
    /\ calls[2].op = "addGroup"
    /\ calls[2].ret = RETURN_OK
    /\ ~calls[2].saw
    /\ lock.owner = 2
    /\ calls[1].pc = "idle"
    /\ bridges = Groups
    /\ StoredVlan(calls[2].g) = <<calls[2].v>>
    /\ \E h \in Groups \ {calls[2].g} : members[h] # {}

\* C22: without whole-operation serialization (no lock, or a lock around the
\* commands and the store write only), whenever two addGroup calls for the same
\* group with different valid VLAN IDs have both probed before the bridge
\* existed and both have returned, the state is a bad one: a call has returned
\* success while the Config Store returns another VLAN ID for the group than
\* the one it requested, or a call has failed on createBridge, or the store
\* holds two entries for the group.
C22_RaceGoesWrong ==
    \A c \in Racers, d \in Racers :
        (/\ c # d
         /\ calls[c].pc = "done" /\ calls[d].pc = "done"
         /\ calls[c].g = calls[d].g /\ calls[c].v # calls[d].v
         /\ ~calls[c].saw /\ ~calls[d].saw)
        => \/ \E x \in {c, d} :
                /\ calls[x].ret = RETURN_OK
                /\ get_vlanId_for_GroupName(store, calls[x].g).out # <<calls[x].v>>
           \/ \E x \in {c, d} :
                calls[x].ret = RETURN_ERR /\ calls[x].fail = "createBridge"
           \/ EntriesOf(store, calls[c].g) > 1

\* C22 witness: under a lock that does not cover the probe, both addGroup calls
\* for one group have returned success with different VLAN IDs, and the entry
\* written by caller 1 has been overwritten by caller 2.
C22_Witness ==
    /\ lock.discipline = "write"
    /\ calls[1].pc = "done" /\ calls[2].pc = "done"
    /\ calls[1].g = calls[2].g
    /\ calls[1].v # calls[2].v
    /\ ~calls[1].saw /\ ~calls[2].saw
    /\ calls[1].ret = RETURN_OK /\ calls[2].ret = RETURN_OK
    /\ EntriesOf(store, calls[1].g) = 1
    /\ StoredVlan(calls[1].g) = <<calls[2].v>>

\* C23: an addGroup, delGroup, addInterface, delInterface or deleteAllInterfaces
\* on group g, successful or not, leaves every other group h as it was: bridge h
\* exists exactly when it did, h has the same members, each still tagged (its
\* VLAN sub-interface exists), and the Config Store holds the same entries for h.
C23_OtherGroupsUntouched ==
    [][last'.op \in MutatingOps
        => \A h \in Groups \ {last'.g} :
            /\ (h \in bridges') <=> (h \in bridges)
            /\ members'[h] = members[h]
            /\ members[h] \subseteq subifs'
            /\ SelectSeq(store', LAMBDA e : e.groupName = h)
                    = SelectSeq(store, LAMBDA e : e.groupName = h)]_vars

\* C23 witness: delInterface(g, i, v) has removed i.v from g while the same
\* parent interface i is a member of the other group under another VLAN ID.
C23_Witness ==
    /\ last.op = "delInterface"
    /\ last.pre.member
    /\ last.ret = RETURN_OK
    /\ <<last.i, last.v>> \notin subifs
    /\ \E h \in Groups \ {last.g}, v2 \in ValidVlanArgs \ {last.v} :
            /\ h \in bridges
            /\ <<last.i, v2>> \in members[h]
            /\ <<last.i, v2>> \in subifs

=============================================================================
